---- MODULE Spec2Model ----
(***************************************************************************)
(* A model of the bincode codec over contiguous buffers: the encoder       *)
(* (ser/mod.rs, Serializer over an ArrayVec), its dry-run twin the         *)
(* SizeChecker, the decoder (de/mod.rs, Deserializer over a SliceReader)   *)
(* and the reader primitive (de/read.rs).                                  *)
(*                                                                         *)
(* Values are records tagged by their shape (field t).  Bytes are the      *)
(* integers 0..255 and buffers are sequences of bytes.  A shift by 8i is   *)
(* a repeated division by 256, a mask is a remainder, and an `|` of        *)
(* disjoint bit fields is a sum.                                           *)
(***************************************************************************)
EXTENDS Integers, Sequences, FiniteSets, TLC

VARIABLES
    endian,     \* O::Endian of the Options shared by the three components
    cap,        \* the size limit the Options are configured with: [bounded, cap]
    writer,     \* the ArrayVec the Serializer writes to: [buf, capacity]
    serResult,  \* "new" without a Serializer, "none" before its first operation,
                \* then the result of its last operation
    serVal,     \* the value last handed to the encoder
    serFrom,    \* the buffer as it was when the last encoder operation started
    checker,    \* SizeChecker.options.limit(): [bounded, cap, total]
    chkResult,  \* "none", then the result of the last size-checker operation
    chkVal,     \* the value last handed to the size-checker
    input,      \* the slice the Deserializer was constructed over
    de,         \* the Deserializer: [slice, limit, res, arg, val, visits, ahead]
    deShape,    \* the shape last asked of the decoder
    dePre,      \* the Deserializer as it was when its last operation started
    access,     \* the Access object a visitor of a sequence or map holds, with
                \* the Deserializer it borrows
    display     \* the formatting of an ErrorKind with "{}": [kind, stack, out]

vars == <<endian, cap, writer, serResult, serVal, serFrom, checker, chkResult,
          chkVal, input, de, deShape, dePre, access, display>>

----------------------------------------------------------------------------
(* Bounds of the model *)

MaxCapacity == 24   \* the largest ArrayVec capacity tried
MaxCap == 12        \* the largest bounded size limit tried
MaxSeqLen == 2      \* the longest generated sequence of u8
MaxDenseChar == 2100    \* every code point up to this one is encoded and decoded
MaxFmtDepth == 6    \* the deepest nesting of fmt calls followed

----------------------------------------------------------------------------
(* Byte helpers *)

RECURSIVE Shr8(_, _)
\* v >> (8 * i)
Shr8(v, i) == IF i = 0 THEN v ELSE Shr8(v \div 256, i - 1)

RECURSIVE Reverse(_)
Reverse(s) == IF s = <<>> THEN <<>> ELSE Append(Reverse(Tail(s)), Head(s))

Take(s, n) == SubSeq(s, 1, n)
Drop(s, n) == SubSeq(s, n + 1, Len(s))

RECURSIVE Concat(_)
\* the concatenation of a sequence of byte sequences
Concat(ss) == IF ss = <<>> THEN <<>> ELSE Head(ss) \o Concat(Tail(ss))

----------------------------------------------------------------------------
(* byteorder: ByteOrder::write_uN / read_uN, by what they do *)

\* the n bytes of the unsigned v, least significant first
LeBytes(v, n) == [i \in 1..n |-> Shr8(v, i - 1) % 256]

\* the n bytes of the two's complement of v: for v < 0 the complement of -v-1
LeBytesSigned(v, n) ==
    IF v >= 0 THEN LeBytes(v, n)
    ELSE [i \in 1..n |-> 255 - (Shr8((0 - v) - 1, i - 1) % 256)]

write_uint(v, n, E) == IF E = "little" THEN LeBytes(v, n) ELSE Reverse(LeBytes(v, n))
write_int(v, n, E) ==
    IF E = "little" THEN LeBytesSigned(v, n) ELSE Reverse(LeBytesSigned(v, n))

RECURSIVE LeValue(_)
\* the unsigned value of bytes given least significant first
LeValue(bs) == IF bs = <<>> THEN 0 ELSE Head(bs) + 256 * LeValue(Tail(bs))

read_uint(bs, n, E) ==
    IF E = "little" THEN LeValue(Take(bs, n)) ELSE LeValue(Reverse(Take(bs, n)))

read_int(bs, n, E) ==
    LET le == IF E = "little" THEN Take(bs, n) ELSE Reverse(Take(bs, n))
    IN  IF le[n] < 128 THEN LeValue(le)
        ELSE 0 - (LeValue([i \in 1..n |-> 255 - le[i]]) + 1)

----------------------------------------------------------------------------
(* UTF-8 *)

TAG_CONT == 128
TAG_TWO_B == 192
TAG_THREE_B == 224
TAG_FOUR_B == 240
MAX_ONE_B == 128
MAX_TWO_B == 2048
MAX_THREE_B == 65536

\* encode_utf8 with the two-byte bound off by one: U+0800 goes in two bytes
encode_utf8_TwoByteBound(code) ==
    IF code < MAX_ONE_B THEN <<code>>
    ELSE IF code <= MAX_TWO_B THEN
        << ((code \div 64) % 32) + TAG_TWO_B,
           (code % 64) + TAG_CONT >>
    ELSE IF code < MAX_THREE_B THEN
        << ((code \div 4096) % 16) + TAG_THREE_B,
           ((code \div 64) % 64) + TAG_CONT,
           (code % 64) + TAG_CONT >>
    ELSE
        << ((code \div 262144) % 8) + TAG_FOUR_B,
           ((code \div 4096) % 64) + TAG_CONT,
           ((code \div 64) % 64) + TAG_CONT,
           (code % 64) + TAG_CONT >>

\* encode_utf8(c).as_slice(): buf[pos..]
encode_utf8(code) ==
    IF code < MAX_ONE_B THEN <<code>>
    ELSE IF code < MAX_TWO_B THEN
        << ((code \div 64) % 32) + TAG_TWO_B,
           (code % 64) + TAG_CONT >>
    ELSE IF code < MAX_THREE_B THEN
        << ((code \div 4096) % 16) + TAG_THREE_B,
           ((code \div 64) % 64) + TAG_CONT,
           (code % 64) + TAG_CONT >>
    ELSE
        << ((code \div 262144) % 8) + TAG_FOUR_B,
           ((code \div 4096) % 64) + TAG_CONT,
           ((code \div 64) % 64) + TAG_CONT,
           (code % 64) + TAG_CONT >>

UTF8_CHAR_WIDTH == <<
    1,1,1,1,1,1,1,1,1,1,1,1,1,1,1,1,
    1,1,1,1,1,1,1,1,1,1,1,1,1,1,1,1,
    1,1,1,1,1,1,1,1,1,1,1,1,1,1,1,1,
    1,1,1,1,1,1,1,1,1,1,1,1,1,1,1,1,
    1,1,1,1,1,1,1,1,1,1,1,1,1,1,1,1,
    1,1,1,1,1,1,1,1,1,1,1,1,1,1,1,1,
    1,1,1,1,1,1,1,1,1,1,1,1,1,1,1,1,
    1,1,1,1,1,1,1,1,1,1,1,1,1,1,1,1,
    0,0,0,0,0,0,0,0,0,0,0,0,0,0,0,0,
    0,0,0,0,0,0,0,0,0,0,0,0,0,0,0,0,
    0,0,0,0,0,0,0,0,0,0,0,0,0,0,0,0,
    0,0,0,0,0,0,0,0,0,0,0,0,0,0,0,0,
    0,0,2,2,2,2,2,2,2,2,2,2,2,2,2,2,
    2,2,2,2,2,2,2,2,2,2,2,2,2,2,2,2,
    3,3,3,3,3,3,3,3,3,3,3,3,3,3,3,3,
    4,4,4,4,4,0,0,0,0,0,0,0,0,0,0,0
>>

\* the width table without its entries of 4
utf8_char_width_NoFour(b) == IF b >= 240 THEN 0 ELSE UTF8_CHAR_WIDTH[b + 1]

utf8_char_width(b) == UTF8_CHAR_WIDTH[b + 1]

IsCont(b) == b >= 128 /\ b <= 191

\* the length of the well-formed UTF-8 sequence bs starts with, 0 if it starts
\* with none (core::str::from_utf8: no overlong form, no surrogate, at most
\* U+10FFFF)
Utf8Lead(bs) ==
    LET n == Len(bs)
        b1 == bs[1]
    IN  IF b1 < 128 THEN 1
        ELSE IF b1 >= 194 /\ b1 <= 223 THEN
            IF n >= 2 /\ IsCont(bs[2]) THEN 2 ELSE 0
        ELSE IF b1 >= 224 /\ b1 <= 239 THEN
            IF /\ n >= 3
               /\ IsCont(bs[2])
               /\ IsCont(bs[3])
               /\ (b1 = 224 => bs[2] >= 160)
               /\ (b1 = 237 => bs[2] <= 159)
            THEN 3 ELSE 0
        ELSE IF b1 >= 240 /\ b1 <= 244 THEN
            IF /\ n >= 4
               /\ IsCont(bs[2])
               /\ IsCont(bs[3])
               /\ IsCont(bs[4])
               /\ (b1 = 240 => bs[2] >= 144)
               /\ (b1 = 244 => bs[2] <= 143)
            THEN 4 ELSE 0
        ELSE 0

RECURSIVE Utf8Valid(_)
\* core::str::from_utf8(bs).is_ok()
Utf8Valid(bs) ==
    IF bs = <<>> THEN TRUE
    ELSE LET k == Utf8Lead(bs)
         IN  k > 0 /\ Utf8Valid(Drop(bs, k))

\* s.chars().next() of a valid str: the scalar value of its first sequence
FirstChar(bs) ==
    LET k == Utf8Lead(bs)
    IN  IF k = 1 THEN bs[1]
        ELSE IF k = 2 THEN (bs[1] % 32) * 64 + (bs[2] % 64)
        ELSE IF k = 3 THEN (bs[1] % 16) * 4096 + (bs[2] % 64) * 64 + (bs[3] % 64)
        ELSE (bs[1] % 8) * 262144 + (bs[2] % 64) * 4096 + (bs[3] % 64) * 64
             + (bs[4] % 64)

----------------------------------------------------------------------------
(* The size-limit policy: Options::limit() and SizeLimit::add *)

NewLimit(c) == [bounded |-> c.bounded, cap |-> c.cap, total |-> 0]

\* limit.add(n): fails when the cap would be exceeded, and then adds nothing
LimitAdd(l, n) ==
    IF l.bounded /\ l.total + n > l.cap
    THEN [ok |-> FALSE, limit |-> l]
    ELSE [ok |-> TRUE, limit |-> [l EXCEPT !.total = @ + n]]

----------------------------------------------------------------------------
(* The encoder: Serializer over an ArrayVec.  An encoder state is          *)
(* [buf, capacity, res]; res is "Ok" or the error kind of the operation.   *)

\* ArrayVec::try_push
try_push(e, b) ==
    IF Len(e.buf) < e.capacity
    THEN [e EXCEPT !.buf = Append(@, b)]
    ELSE [e EXCEPT !.res = "CapacityError"]

RECURSIVE PushAll(_, _)
\* for &val in &buf { self.writer.try_push(val)?; }
PushAll(e, bs) ==
    IF bs = <<>> THEN e
    ELSE LET e1 == try_push(e, Head(bs))
         IN  IF e1.res # "Ok" THEN e1 ELSE PushAll(e1, Tail(bs))

serialize_bool(e, v) == try_push(e, IF v THEN 1 ELSE 0)
serialize_u8(e, v) == try_push(e, v)
serialize_u16(e, v, E) == PushAll(e, write_uint(v, 2, E))
serialize_u32(e, v, E) == PushAll(e, write_uint(v, 4, E))
serialize_u64(e, v, E) == PushAll(e, write_uint(v, 8, E))
\* v as u8
serialize_i8(e, v) == try_push(e, (v + 256) % 256)
serialize_i16(e, v, E) == PushAll(e, write_int(v, 2, E))
serialize_i32(e, v, E) == PushAll(e, write_int(v, 4, E))
serialize_i64(e, v, E) == PushAll(e, write_int(v, 8, E))

\* serialize_u128 and serialize_i128 without the i128 feature: panic!(..)
serialize_u128(e, v) == [e EXCEPT !.res = "panic"]

serialize_char(e, c) == PushAll(e, encode_utf8(c))

serialize_str(e, v, E) ==
    LET e1 == serialize_u64(e, Len(v), E)
    IN  IF e1.res # "Ok" THEN e1 ELSE PushAll(e1, v)

serialize_bytes(e, v, E) ==
    LET e1 == serialize_u64(e, Len(v), E)
    IN  IF e1.res # "Ok" THEN e1 ELSE PushAll(e1, v)

serialize_none(e) == try_push(e, 0)

\* serialize_seq writing a length of 0 before it rejects a missing length
serialize_seq_LenFirst(e, len, E) ==
    LET e1 == serialize_u64(e, IF len = <<>> THEN 0 ELSE len[1], E)
    IN  IF e1.res # "Ok" THEN e1
        ELSE IF len = <<>> THEN [e1 EXCEPT !.res = "SequenceMustHaveLength"]
        ELSE e1

\* serialize_seq and serialize_map: len is <<>> (None) or <<n>> (Some(n))
serialize_seq(e, len, E) ==
    IF len = <<>> THEN [e EXCEPT !.res = "SequenceMustHaveLength"]
    ELSE serialize_u64(e, len[1], E)

serialize_map(e, len, E) ==
    IF len = <<>> THEN [e EXCEPT !.res = "SequenceMustHaveLength"]
    ELSE serialize_u64(e, len[1], E)

\* the variant tag written least significant byte first whatever O::Endian is
serialize_variant_index_Little(e, idx, E) == serialize_u32(e, idx, "little")

\* serialize_unit_variant, and the tag of the newtype, tuple and struct variants
serialize_variant_index(e, idx, E) == serialize_u32(e, idx, E)

RECURSIVE WriteStrAll_KeepKind(_, _)
\* write_str handing the CapacityError on instead of fmt::Error
WriteStrAll_KeepKind(e, chunks) ==
    IF chunks = <<>> THEN e
    ELSE LET e1 == PushAll(e, Head(chunks))
         IN  IF e1.res # "Ok" THEN e1
             ELSE WriteStrAll_KeepKind(e1, Tail(chunks))

RECURSIVE WriteStrAll(_, _)
\* write!(ArrayVecWrite(writer), "{}", value): one write_str for every piece
\* the formatter hands over; a full buffer is reported as fmt::Error
WriteStrAll(e, chunks) ==
    IF chunks = <<>> THEN e
    ELSE LET e1 == PushAll(e, Head(chunks))
         IN  IF e1.res # "Ok" THEN [e1 EXCEPT !.res = "Fmt"]
             ELSE WriteStrAll(e1, Tail(chunks))

\* write_u64 over the start of the buffer instead of &mut self.writer[pos..]
PatchU64_AtStart(buf, pos, len, E) ==
    LET bs == write_uint(len, 8, E)
    IN  [i \in 1..Len(buf) |-> IF i <= 8 THEN bs[i] ELSE buf[i]]

\* O::Endian::write_u64(&mut self.writer[pos..], len)
PatchU64(buf, pos, len, E) ==
    LET bs == write_uint(len, 8, E)
    IN  [i \in 1..Len(buf) |-> IF i > pos /\ i <= pos + 8 THEN bs[i - pos] ELSE buf[i]]

\* collect_str counting the reserved bytes into the length: new_pos - pos
collect_str_LenWithPrefix(e, chunks, E) ==
    LET pos == Len(e.buf)
        e1 == serialize_u64(e, 0, E)
        e2 == WriteStrAll(e1, chunks)
        len == Len(e2.buf) - pos
    IN  IF e1.res # "Ok" THEN e1
        ELSE IF e2.res # "Ok" THEN e2
        ELSE [e2 EXCEPT !.buf = PatchU64(@, pos, len, E)]

collect_str(e, chunks, E) ==
    LET pos == Len(e.buf)
        e1 == serialize_u64(e, 0, E)
        e2 == WriteStrAll(e1, chunks)
        len == (Len(e2.buf) - pos) - 8
    IN  IF e1.res # "Ok" THEN e1
        ELSE IF e2.res # "Ok" THEN e2
        ELSE [e2 EXCEPT !.buf = PatchU64(@, pos, len, E)]

RECURSIVE Ser(_, _, _)
RECURSIVE SerAll(_, _, _)
RECURSIVE SerPairs(_, _, _)

\* value.serialize(&mut serializer) for each element or field in order
SerAll(e, vs, E) ==
    IF vs = <<>> THEN e
    ELSE LET e1 == Ser(e, Head(vs), E)
         IN  IF e1.res # "Ok" THEN e1 ELSE SerAll(e1, Tail(vs), E)

\* serialize_key then serialize_value for each pair in order
SerPairs(e, ps, E) ==
    IF ps = <<>> THEN e
    ELSE LET e1 == Ser(e, Head(ps)[1], E)
             e2 == Ser(e1, Head(ps)[2], E)
         IN  IF e1.res # "Ok" THEN e1
             ELSE IF e2.res # "Ok" THEN e2
             ELSE SerPairs(e2, Tail(ps), E)

\* the driver's traversal of a value over the Serializer
Ser(e, x, E) ==
    CASE x.t = "unit" -> e
      [] x.t = "bool" -> serialize_bool(e, x.v)
      [] x.t = "u8" -> serialize_u8(e, x.v)
      [] x.t = "u16" -> serialize_u16(e, x.v, E)
      [] x.t = "u32" -> serialize_u32(e, x.v, E)
      [] x.t = "u64" -> serialize_u64(e, x.v, E)
      [] x.t = "i8" -> serialize_i8(e, x.v)
      [] x.t = "i16" -> serialize_i16(e, x.v, E)
      [] x.t = "i32" -> serialize_i32(e, x.v, E)
      [] x.t = "i64" -> serialize_i64(e, x.v, E)
      [] x.t \in {"u128", "i128"} -> serialize_u128(e, x.v)
      [] x.t = "char" -> serialize_char(e, x.v)
      [] x.t = "str" -> serialize_str(e, x.v, E)
      [] x.t = "bytes" -> serialize_bytes(e, x.v, E)
      [] x.t = "display" -> collect_str(e, x.v, E)
      [] x.t = "option" ->
            IF x.v = <<>> THEN serialize_none(e)
            ELSE \* serialize_some
                 LET e1 == try_push(e, 1)
                 IN  IF e1.res # "Ok" THEN e1 ELSE Ser(e1, x.v[1], E)
      [] x.t = "seq" ->
            LET e1 == serialize_seq(e, <<Len(x.v)>>, E)
            IN  IF e1.res # "Ok" THEN e1 ELSE SerAll(e1, x.v, E)
      [] x.t = "map" ->
            LET e1 == serialize_map(e, <<Len(x.v)>>, E)
            IN  IF e1.res # "Ok" THEN e1 ELSE SerPairs(e1, x.v, E)
      [] x.t = "iter" -> \* an iterator that gives no length
            LET e1 == serialize_seq(e, <<>>, E)
            IN  IF e1.res # "Ok" THEN e1 ELSE SerAll(e1, x.v, E)
      [] x.t = "itermap" ->
            LET e1 == serialize_map(e, <<>>, E)
            IN  IF e1.res # "Ok" THEN e1 ELSE SerPairs(e1, x.v, E)
      [] x.t = "tuple" -> SerAll(e, x.v, E)
      [] x.t = "enum" ->
            LET e1 == serialize_variant_index(e, x.idx, E)
            IN  IF e1.res # "Ok" THEN e1 ELSE SerAll(e1, x.v, E)

----------------------------------------------------------------------------
(* The size-checker.  A checker state is [limit, res].                     *)

add_raw(c, size) ==
    LET r == LimitAdd(c.limit, size)
    IN  IF r.ok THEN [c EXCEPT !.limit = r.limit] ELSE [c EXCEPT !.res = "SizeLimit"]

\* add_value(t): size_of_val(&t) bytes
add_value(c, size) == add_raw(c, size)

\* CountWrite over the pieces the formatter hands over
CountWrite(chunks) == Len(Concat(chunks))

\* the result of the second add_raw is dropped
size_collect_str(c, chunks) ==
    LET c1 == add_value(c, 8)
        c2 == add_raw(c1, CountWrite(chunks))
    IN  IF c1.res # "Ok" THEN c1 ELSE [c2 EXCEPT !.res = "Ok"]

size_serialize_str(c, v) ==
    LET c1 == add_value(c, 8)
    IN  IF c1.res # "Ok" THEN c1 ELSE add_raw(c1, Len(v))

size_serialize_bytes(c, v) ==
    LET c1 == add_value(c, 8)
    IN  IF c1.res # "Ok" THEN c1 ELSE add_raw(c1, Len(v))

\* serialize_char counting size_of::<char>() instead of the encoded length
size_serialize_char_SizeOf(c, code) == add_raw(c, 4)

size_serialize_char(c, code) == add_raw(c, Len(encode_utf8(code)))

size_serialize_seq(c, len) ==
    IF len = <<>> THEN [c EXCEPT !.res = "SequenceMustHaveLength"]
    ELSE add_value(c, 8)

size_serialize_map(c, len) ==
    IF len = <<>> THEN [c EXCEPT !.res = "SequenceMustHaveLength"]
    ELSE add_value(c, 8)

RECURSIVE Size(_, _)
RECURSIVE SizeAll(_, _)
RECURSIVE SizePairs(_, _)

SizeAll(c, vs) ==
    IF vs = <<>> THEN c
    ELSE LET c1 == Size(c, Head(vs))
         IN  IF c1.res # "Ok" THEN c1 ELSE SizeAll(c1, Tail(vs))

SizePairs(c, ps) ==
    IF ps = <<>> THEN c
    ELSE LET c1 == Size(c, Head(ps)[1])
             c2 == Size(c1, Head(ps)[2])
         IN  IF c1.res # "Ok" THEN c1
             ELSE IF c2.res # "Ok" THEN c2
             ELSE SizePairs(c2, Tail(ps))

\* the driver's traversal of a value over the SizeChecker
Size(c, x) ==
    CASE x.t = "unit" -> c
      [] x.t \in {"bool", "u8", "i8"} -> add_value(c, 1)
      [] x.t \in {"u16", "i16"} -> add_value(c, 2)
      [] x.t \in {"u32", "i32"} -> add_value(c, 4)
      [] x.t \in {"u64", "i64"} -> add_value(c, 8)
      [] x.t \in {"u128", "i128"} -> add_value(c, 16)
      [] x.t = "char" -> size_serialize_char(c, x.v)
      [] x.t = "str" -> size_serialize_str(c, x.v)
      [] x.t = "bytes" -> size_serialize_bytes(c, x.v)
      [] x.t = "display" -> size_collect_str(c, x.v)
      [] x.t = "option" ->
            LET c1 == add_value(c, 1)
            IN  IF x.v = <<>> \/ c1.res # "Ok" THEN c1 ELSE Size(c1, x.v[1])
      [] x.t = "seq" ->
            LET c1 == size_serialize_seq(c, <<Len(x.v)>>)
            IN  IF c1.res # "Ok" THEN c1 ELSE SizeAll(c1, x.v)
      [] x.t = "map" ->
            LET c1 == size_serialize_map(c, <<Len(x.v)>>)
            IN  IF c1.res # "Ok" THEN c1 ELSE SizePairs(c1, x.v)
      [] x.t = "iter" ->
            LET c1 == size_serialize_seq(c, <<>>)
            IN  IF c1.res # "Ok" THEN c1 ELSE SizeAll(c1, x.v)
      [] x.t = "itermap" ->
            LET c1 == size_serialize_map(c, <<>>)
            IN  IF c1.res # "Ok" THEN c1 ELSE SizePairs(c1, x.v)
      [] x.t = "tuple" -> SizeAll(c, x.v)
      [] x.t = "enum" ->
            LET c1 == add_value(c, 4)
            IN  IF c1.res # "Ok" THEN c1 ELSE SizeAll(c1, x.v)

----------------------------------------------------------------------------
(* The decoder: Deserializer over a SliceReader.  A decoder state is       *)
(* [slice, limit, res, arg, val, visits, ahead]: the unread input, the     *)
(* size limit, the result of the operation ("Ok" or an error kind, with    *)
(* the byte an error carries in arg), the value the driver built from what *)
(* the visitors were handed, the calls made on the visitors, and the       *)
(* number of bytes beyond the cursor the operation examined before it      *)
(* moved the cursor over them.                                             *)

Fail(d, kind, arg) == [d EXCEPT !.res = kind, !.arg = arg]

Visit(d, call, value) == [d EXCEPT !.visits = Append(@, call), !.val = value]

read_bytes(d, count) ==
    LET r == LimitAdd(d.limit, count)
    IN  IF r.ok THEN [d EXCEPT !.limit = r.limit] ELSE Fail(d, "SizeLimit", 0)

\* read_type::<T>(): size is size_of::<T>()
read_type(d, size) == read_bytes(d, size)

\* SliceReader::read_exact over a buffer of n bytes (the bytes copied out are
\* the first n of the slice before the call)
read_exact(d, n) ==
    IF n > Len(d.slice) THEN Fail(d, "SizeLimit", 0)
    ELSE [d EXCEPT !.slice = Drop(@, n)]

SizeOfNum(t) ==
    CASE t \in {"u8", "i8"} -> 1
      [] t \in {"u16", "i16"} -> 2
      [] t \in {"u32", "i32"} -> 4
      [] t \in {"u64", "i64"} -> 8

\* impl_read_nums: SliceReader::read_u16 .. read_i64
read_num(d, t, E) ==
    LET size == SizeOfNum(t)
    IN  IF size > Len(d.slice) THEN Fail(d, "SizeLimit", 0)
        ELSE [d EXCEPT !.slice = Drop(@, size),
                       !.val = [t |-> t,
                                v |-> IF t \in {"i16", "i32", "i64"}
                                      THEN read_int(d.slice, size, E)
                                      ELSE read_uint(d.slice, size, E)]]

\* impl_nums up to the call of the visitor
impl_nums(d, t, E) ==
    LET d1 == read_type(d, SizeOfNum(t))
    IN  IF d1.res # "Ok" THEN d1 ELSE read_num(d1, t, E)

\* deserialize_u8 and deserialize_i8 up to the call of the visitor
read_byte(d, t) ==
    LET d1 == read_type(d, 1)
    IN  IF d1.res # "Ok" THEN d1
        ELSE IF d1.slice = <<>> THEN Fail(d1, "SizeLimit", 0)
        ELSE [d1 EXCEPT !.slice = Tail(@),
                        !.val = [t |-> t,
                                 v |-> IF t = "i8" /\ d1.slice[1] >= 128
                                       THEN d1.slice[1] - 256
                                       ELSE d1.slice[1]]]

\* a number of type t handed to its visitor
deserialize_num(d, t, E) ==
    LET d1 == IF t \in {"u8", "i8"} THEN read_byte(d, t) ELSE impl_nums(d, t, E)
    IN  IF d1.res # "Ok" THEN d1
        ELSE Visit(d1, [m |-> "visit_num", v |-> d1.val.v], d1.val)

\* deserialize_bool taking every non-zero byte for true
deserialize_bool_NonZero(d) ==
    LET d1 == read_byte(d, "u8")
        value == d1.val.v
    IN  IF d1.res # "Ok" THEN d1
        ELSE IF value = 0 THEN Visit(d1, [m |-> "visit_bool", v |-> FALSE],
                                     [t |-> "bool", v |-> FALSE])
        ELSE Visit(d1, [m |-> "visit_bool", v |-> TRUE], [t |-> "bool", v |-> TRUE])

deserialize_bool(d) ==
    LET d1 == read_byte(d, "u8")
        value == d1.val.v
    IN  IF d1.res # "Ok" THEN d1
        ELSE IF value = 1 THEN Visit(d1, [m |-> "visit_bool", v |-> TRUE],
                                     [t |-> "bool", v |-> TRUE])
        ELSE IF value = 0 THEN Visit(d1, [m |-> "visit_bool", v |-> FALSE],
                                     [t |-> "bool", v |-> FALSE])
        ELSE Fail(d1, "InvalidBoolEncoding", value)

\* deserialize_char taking the bits of the width-byte span as they are,
\* without from_utf8
deserialize_char_NoValidation(d) ==
    LET d1 == read_exact(d, 1)
        b0 == d.slice[1]
        width == utf8_char_width(b0)
        d2 == read_exact(d1, width - 1)
        buf == Take(d.slice, width)
        code == IF width = 2 THEN (buf[1] % 32) * 64 + (buf[2] % 64)
                ELSE IF width = 3
                     THEN (buf[1] % 16) * 4096 + (buf[2] % 64) * 64 + (buf[3] % 64)
                ELSE (buf[1] % 8) * 262144 + (buf[2] % 64) * 4096 + (buf[3] % 64) * 64
                     + (buf[4] % 64)
    IN  IF d1.res # "Ok" THEN d1
        ELSE IF width = 1 THEN Visit(d1, [m |-> "visit_char", v |-> b0],
                                     [t |-> "char", v |-> b0])
        ELSE IF width = 0 THEN Fail(d1, "InvalidCharEncoding", 0)
        ELSE IF d2.res # "Ok" THEN Fail(d1, "InvalidCharEncoding", 0)
        ELSE Visit(d2, [m |-> "visit_char", v |-> code], [t |-> "char", v |-> code])

\* deserialize_char looking at the first byte without moving the cursor over
\* it until the width is known to be valid
deserialize_char_Peek(d) ==
    LET b0 == d.slice[1]
        width == utf8_char_width(b0)
        d1 == [read_exact(d, 1) EXCEPT !.ahead = 1]
        d2 == read_exact(d1, width - 1)
        buf == Take(d.slice, width)
    IN  IF d.slice = <<>> THEN Fail(d, "SizeLimit", 0)
        ELSE IF width = 1 THEN Visit(d1, [m |-> "visit_char", v |-> b0],
                                     [t |-> "char", v |-> b0])
        ELSE IF width = 0 THEN Fail([d EXCEPT !.ahead = 1], "InvalidCharEncoding", 0)
        ELSE IF d2.res # "Ok" THEN Fail(d1, "InvalidCharEncoding", 0)
        ELSE IF ~Utf8Valid(buf) THEN Fail(d2, "InvalidCharEncoding", 0)
        ELSE Visit(d2, [m |-> "visit_char", v |-> FirstChar(buf)],
                   [t |-> "char", v |-> FirstChar(buf)])

deserialize_char(d) ==
    LET d1 == read_exact(d, 1)
        b0 == d.slice[1]
        width == utf8_char_width(b0)
        d2 == read_exact(d1, width - 1)
        buf == Take(d.slice, width)
    IN  IF d1.res # "Ok" THEN d1
        ELSE IF width = 1 THEN Visit(d1, [m |-> "visit_char", v |-> b0],
                                     [t |-> "char", v |-> b0])
        ELSE IF width = 0 THEN Fail(d1, "InvalidCharEncoding", 0)
        ELSE IF d2.res # "Ok" THEN Fail(d1, "InvalidCharEncoding", 0)
        ELSE IF ~Utf8Valid(buf) THEN Fail(d2, "InvalidCharEncoding", 0)
        ELSE Visit(d2, [m |-> "visit_char", v |-> FirstChar(buf)],
                   [t |-> "char", v |-> FirstChar(buf)])

\* forward_read_str validating what is there before it checks the length
forward_read_str_ValidateFirst(d, length) ==
    LET have == IF length > Len(d.slice) THEN Len(d.slice) ELSE length
    IN  IF ~Utf8Valid(Take(d.slice, have)) THEN Fail(d, "InvalidUtf8Encoding", 0)
        ELSE IF length > Len(d.slice) THEN Fail(d, "SizeLimit", 0)
        ELSE [Visit(d, [m |-> "visit_borrowed_str", v |-> Take(d.slice, length)],
                    [t |-> "str", v |-> Take(d.slice, length)])
                EXCEPT !.slice = Drop(@, length)]

\* SliceReader::forward_read_str: from_utf8 runs over &self.slice[..length]
\* while the cursor is still in front of it
forward_read_str(d, length) ==
    LET d1 == [d EXCEPT !.ahead = length]
    IN  IF length > Len(d.slice) THEN Fail(d, "SizeLimit", 0)
        ELSE IF ~Utf8Valid(Take(d.slice, length))
             THEN Fail(d1, "InvalidUtf8Encoding", 0)
        ELSE [Visit(d1, [m |-> "visit_borrowed_str", v |-> Take(d.slice, length)],
                    [t |-> "str", v |-> Take(d.slice, length)])
                EXCEPT !.slice = Drop(@, length)]

\* forward_read_bytes handing the bytes that are there to the visitor before
\* it checks the length
forward_read_bytes_VisitFirst(d, length) ==
    LET have == IF length > Len(d.slice) THEN Len(d.slice) ELSE length
        d1 == Visit(d, [m |-> "visit_borrowed_bytes", v |-> Take(d.slice, have)],
                    [t |-> "bytes", v |-> Take(d.slice, have)])
    IN  IF length > Len(d.slice) THEN Fail(d1, "SizeLimit", 0)
        ELSE [d1 EXCEPT !.slice = Drop(@, length)]

\* SliceReader::forward_read_bytes
forward_read_bytes(d, length) ==
    IF length > Len(d.slice) THEN Fail(d, "SizeLimit", 0)
    ELSE [Visit(d, [m |-> "visit_borrowed_bytes", v |-> Take(d.slice, length)],
                [t |-> "bytes", v |-> Take(d.slice, length)])
            EXCEPT !.slice = Drop(@, length)]

\* deserialize_str without read_bytes(len) ahead of forward_read_str
deserialize_str_NoLimit(d, E) ==
    LET d1 == impl_nums(d, "u64", E)
        len == d1.val.v
    IN  IF d1.res # "Ok" THEN d1
        ELSE forward_read_str(d1, len)

deserialize_str(d, E) ==
    LET d1 == impl_nums(d, "u64", E)
        len == d1.val.v
        d2 == read_bytes(d1, len)
    IN  IF d1.res # "Ok" THEN d1
        ELSE IF d2.res # "Ok" THEN d2
        ELSE forward_read_str(d2, len)

deserialize_bytes(d, E) ==
    LET d1 == impl_nums(d, "u64", E)
        len == d1.val.v
        d2 == read_bytes(d1, len)
    IN  IF d1.res # "Ok" THEN d1
        ELSE IF d2.res # "Ok" THEN d2
        ELSE forward_read_bytes(d2, len)

deserialize_any(d) == Fail(d, "DeserializeAnyNotSupported", 0)

\* Error::custom(message)
deserialize_identifier(d) == Fail(d, "Serde", 0)

\* deserialize_ignored_any skipping one byte
deserialize_ignored_any_Skip(d) ==
    IF d.slice = <<>> THEN Fail(d, "Serde", 0)
    ELSE [d EXCEPT !.slice = Tail(@)]

\* Error::custom(message)
deserialize_ignored_any(d) == Fail(d, "Serde", 0)

\* deserialize_u128 and deserialize_i128 without the i128 feature
deserialize_u128(d) == Fail(d, "Serde", 0)

RECURSIVE De(_, _, _)
RECURSIVE DeSeq(_, _, _, _, _)
RECURSIVE DeMap(_, _, _, _, _, _)
RECURSIVE DeTuple(_, _, _, _)

\* Access::next_element_seed until it yields None: len elements of shape s
DeSeq(d, s, len, acc, E) ==
    IF len = 0 THEN [d EXCEPT !.val = acc]
    ELSE LET d1 == De(d, s, E)
         IN  IF d1.res # "Ok" THEN d1
             ELSE DeSeq(d1, s, len - 1, Append(acc, d1.val), E)

\* Access::next_key_seed then next_value_seed until the key is None
DeMap(d, ks, vs, len, acc, E) ==
    IF len = 0 THEN [d EXCEPT !.val = acc]
    ELSE LET d1 == De(d, ks, E)
             d2 == De(d1, vs, E)
         IN  IF d1.res # "Ok" THEN d1
             ELSE IF d2.res # "Ok" THEN d2
             ELSE DeMap(d2, ks, vs, len - 1, Append(acc, <<d1.val, d2.val>>), E)

\* deserialize_tuple(len, visitor) under a visitor that asks for one element
\* of each of the shapes ss
DeTuple(d, ss, acc, E) ==
    IF ss = <<>> THEN [d EXCEPT !.val = acc]
    ELSE LET d1 == De(d, Head(ss), E)
         IN  IF d1.res # "Ok" THEN d1
             ELSE DeTuple(d1, Tail(ss), Append(acc, d1.val), E)

\* deserialize_option taking every non-zero tag for some
deserialize_option_NonZero(d, s, E) ==
    LET d1 == read_byte(d, "u8")
        value == d1.val.v
        d2 == De([d1 EXCEPT !.visits = Append(@, [m |-> "visit_some"])], s.of, E)
    IN  IF d1.res # "Ok" THEN d1
        ELSE IF value = 0 THEN Visit(d1, [m |-> "visit_none"],
                                     [t |-> "option", of |-> s.of, v |-> <<>>])
        ELSE IF d2.res # "Ok" THEN d2
        ELSE [d2 EXCEPT !.val = [t |-> "option", of |-> s.of, v |-> <<d2.val>>]]

deserialize_option(d, s, E) ==
    LET d1 == read_byte(d, "u8")
        value == d1.val.v
        d2 == De([d1 EXCEPT !.visits = Append(@, [m |-> "visit_some"])], s.of, E)
    IN  IF d1.res # "Ok" THEN d1
        ELSE IF value = 0 THEN Visit(d1, [m |-> "visit_none"],
                                     [t |-> "option", of |-> s.of, v |-> <<>>])
        ELSE IF value = 1 THEN
            IF d2.res # "Ok" THEN d2
            ELSE [d2 EXCEPT !.val = [t |-> "option", of |-> s.of, v |-> <<d2.val>>]]
        ELSE Fail(d1, "InvalidTagEncoding", value)

deserialize_seq(d, s, E) ==
    LET d1 == impl_nums(d, "u64", E)
        len == d1.val.v
        d2 == DeSeq([d1 EXCEPT !.visits = Append(@, [m |-> "visit_seq"])],
                    s.of, len, <<>>, E)
    IN  IF d1.res # "Ok" THEN d1
        ELSE IF d2.res # "Ok" THEN d2
        ELSE [d2 EXCEPT !.val = [t |-> "seq", of |-> s.of, v |-> d2.val]]

deserialize_map(d, s, E) ==
    LET d1 == impl_nums(d, "u64", E)
        len == d1.val.v
        d2 == DeMap([d1 EXCEPT !.visits = Append(@, [m |-> "visit_map"])],
                    s.k, s.of, len, <<>>, E)
    IN  IF d1.res # "Ok" THEN d1
        ELSE IF d2.res # "Ok" THEN d2
        ELSE [d2 EXCEPT !.val = [t |-> "map", k |-> s.k, of |-> s.of, v |-> d2.val]]

deserialize_tuple(d, s, E) ==
    LET d2 == DeTuple([d EXCEPT !.visits = Append(@, [m |-> "visit_seq"])],
                      s.of, <<>>, E)
    IN  IF d2.res # "Ok" THEN d2
        ELSE [d2 EXCEPT !.val = [t |-> "tuple", v |-> d2.val]]

\* deserialize_enum: visit_enum, variant_seed reads the 32-bit index and hands
\* it to the seed, which accepts the indices of the enum's variants; then the
\* payload is read as the variant's fields
deserialize_enum(d, s, E) ==
    LET d0 == [d EXCEPT !.visits = Append(@, [m |-> "visit_enum"])]
        d1 == impl_nums(d0, "u32", E)
        idx == d1.val.v
        d2 == DeTuple(d1, s.variants[idx + 1], <<>>, E)
    IN  IF d1.res # "Ok" THEN d1
        ELSE IF idx >= Len(s.variants) THEN Fail(d1, "Serde", 0)
        ELSE IF d2.res # "Ok" THEN d2
        ELSE [d2 EXCEPT !.val = [t |-> "enum", variants |-> s.variants,
                                 idx |-> idx, v |-> d2.val]]

\* the driver's type-directed request of a value of shape s
De(d, s, E) ==
    CASE s.t = "unit" -> Visit(d, [m |-> "visit_unit"], [t |-> "unit"])
      [] s.t = "bool" -> deserialize_bool(d)
      [] s.t \in {"u8", "u16", "u32", "u64", "i8", "i16", "i32", "i64"} ->
            deserialize_num(d, s.t, E)
      [] s.t = "char" -> deserialize_char(d)
      [] s.t = "str" -> deserialize_str(d, E)
      [] s.t = "bytes" -> deserialize_bytes(d, E)
      [] s.t = "option" -> deserialize_option(d, s, E)
      [] s.t = "seq" -> deserialize_seq(d, s, E)
      [] s.t = "map" -> deserialize_map(d, s, E)
      [] s.t = "tuple" -> deserialize_tuple(d, s, E)
      [] s.t = "enum" -> deserialize_enum(d, s, E)
      [] s.t \in {"u128", "i128"} -> deserialize_u128(d)
      [] s.t = "any" -> deserialize_any(d)
      [] s.t = "identifier" -> deserialize_identifier(d)
      [] s.t = "ignored_any" -> deserialize_ignored_any(d)

----------------------------------------------------------------------------
(* The Access object of deserialize_tuple and of deserialize_map, as the    *)
(* visitor of a sequence or map holds it: [deserializer, len] and, for the  *)
(* properties, the shapes asked for (k, of), the count it was made with,    *)
(* the values yielded, the outcome of the last call ("none" before the      *)
(* first, "some", "key", "end" or "error") and the decoder as it was when   *)
(* the access was made (from) and when the last call started (pre).         *)

\* one element, key or value read through the borrowed decoder
AccessRead(a, s, E) ==
    De([a.deserializer EXCEPT !.res = "Ok", !.arg = 0, !.val = [t |-> "none"],
                              !.visits = <<>>, !.ahead = 0], s, E)

\* next_element_seed without self.len -= 1
next_element_seed_HintStale(a, E) ==
    IF a.len > 0
    THEN LET d1 == AccessRead(a, a.of, E)
         IN  IF d1.res # "Ok"
             THEN [a EXCEPT !.deserializer = d1, !.last = "error",
                            !.pre = a.deserializer]
             ELSE [a EXCEPT !.deserializer = d1, !.last = "some",
                            !.yielded = Append(@, d1.val), !.pre = a.deserializer]
    ELSE [a EXCEPT !.last = "end", !.pre = a.deserializer]

\* SeqAccess::next_element_seed
next_element_seed(a, E) ==
    IF a.len > 0
    THEN LET d1 == AccessRead(a, a.of, E)
         IN  IF d1.res # "Ok"
             THEN [a EXCEPT !.len = @ - 1, !.deserializer = d1, !.last = "error",
                            !.pre = a.deserializer]
             ELSE [a EXCEPT !.len = @ - 1, !.deserializer = d1, !.last = "some",
                            !.yielded = Append(@, d1.val), !.pre = a.deserializer]
    ELSE [a EXCEPT !.last = "end", !.pre = a.deserializer]

\* MapAccess::next_key_seed
next_key_seed(a, E) ==
    IF a.len > 0
    THEN LET d1 == AccessRead(a, a.k, E)
         IN  IF d1.res # "Ok"
             THEN [a EXCEPT !.len = @ - 1, !.deserializer = d1, !.last = "error",
                            !.pre = a.deserializer]
             ELSE [a EXCEPT !.len = @ - 1, !.deserializer = d1, !.last = "key",
                            !.yielded = Append(@, d1.val), !.pre = a.deserializer]
    ELSE [a EXCEPT !.last = "end", !.pre = a.deserializer]

\* MapAccess::next_value_seed
next_value_seed(a, E) ==
    LET d1 == AccessRead(a, a.of, E)
    IN  IF d1.res # "Ok"
        THEN [a EXCEPT !.deserializer = d1, !.last = "error", !.pre = a.deserializer]
        ELSE [a EXCEPT !.deserializer = d1, !.last = "some",
                       !.yielded = Append(@, d1.val), !.pre = a.deserializer]

\* size_hint: Some(self.len)
size_hint(a) == a.len

----------------------------------------------------------------------------
(* The values and shapes the driver works with *)

Num(t, v) == [t |-> t, v |-> v]
Unit == [t |-> "unit"]
Sh(t) == [t |-> t]
OptionOf(s, v) == [t |-> "option", of |-> s, v |-> v]
SeqOf(s, v) == [t |-> "seq", of |-> s, v |-> v]
MapOf(ks, vs, v) == [t |-> "map", k |-> ks, of |-> vs, v |-> v]
TupleOf(v) == [t |-> "tuple", v |-> v]

\* enum E { A, B(u16, char), C(u8) }
Variants == << <<>>, <<Sh("u16"), Sh("char")>>, <<Sh("u8")>> >>
EnumOf(idx, v) == [t |-> "enum", variants |-> Variants, idx |-> idx, v |-> v]

CharSamples == <<65, 127, 128, 233, 2047, 2048, 8364, 55295, 57344, 65535, 65536,
                 128512, 1114111>>

Scalars ==
    << Unit,
       Num("bool", TRUE), Num("bool", FALSE),
       Num("u8", 0), Num("u8", 255),
       Num("u16", 258), Num("u16", 65535),
       Num("u32", 16909060),
       Num("u64", 16909060), Num("u64", 2147483647),
       Num("i8", 0 - 128), Num("i8", 0 - 1), Num("i8", 127),
       Num("i16", 0 - 2), Num("i16", 258),
       Num("i32", 0 - 16909060),
       Num("i64", 0 - 1), Num("i64", 16909060),
       Num("str", <<>>), Num("str", <<104, 105>>),
       Num("str", <<195, 169, 226, 130, 172>>),
       Num("bytes", <<>>), Num("bytes", <<0, 255, 128>>),
       Num("display", <<>>), Num("display", << <<97>>, <<98, 99>> >>) >>

Chars == [i \in 1..Len(CharSamples) |-> Num("char", CharSamples[i])]

\* the sequences of u8 of every length up to MaxSeqLen
ByteSeqs == [n \in 1..(MaxSeqLen + 1) |->
                SeqOf(Sh("u8"), [i \in 1..(n - 1) |-> Num("u8", i)])]

Composites ==
    << OptionOf(Sh("u16"), <<>>),
       OptionOf(Sh("u16"), <<Num("u16", 1)>>),
       OptionOf(Sh("char"), <<Num("char", 233)>>),
       OptionOf(Sh("str"), <<Num("str", <<104, 105>>)>>),
       OptionOf([t |-> "option", of |-> Sh("u8")], <<OptionOf(Sh("u8"), <<>>)>>),
       SeqOf(Sh("char"), <<Num("char", 233), Num("char", 65)>>),
       SeqOf(Sh("str"), <<Num("str", <<104, 105>>)>>),
       SeqOf(Sh("u16"), <<Num("u16", 258), Num("u16", 1)>>),
       SeqOf([t |-> "option", of |-> Sh("u8")],
             <<OptionOf(Sh("u8"), <<>>), OptionOf(Sh("u8"), <<Num("u8", 3)>>)>>),
       MapOf(Sh("u8"), Sh("char"), <<>>),
       MapOf(Sh("u8"), Sh("char"),
             << <<Num("u8", 1), Num("char", 65)>>, <<Num("u8", 2), Num("char", 233)>> >>),
       TupleOf(<<Num("u8", 7), Num("u16", 258)>>),
       TupleOf(<<Num("char", 8364), Num("bool", TRUE)>>),
       EnumOf(0, <<>>),
       EnumOf(1, <<Num("u16", 258), Num("char", 233)>>),
       EnumOf(2, <<Num("u8", 7)>>) >>

\* values the format has no encoding for: 128-bit integers (the i128 feature
\* is off) and sequences and maps whose length the driver cannot give
Unsupported ==
    << Num("u128", 1), Num("i128", 0 - 1),
       [t |-> "iter", of |-> Sh("u8"), v |-> <<Num("u8", 1), Num("u8", 2)>>],
       [t |-> "iter", of |-> Sh("u8"), v |-> <<>>],
       [t |-> "itermap", k |-> Sh("u8"), of |-> Sh("char"),
        v |-> << <<Num("u8", 1), Num("char", 65)>> >>] >>

Values == Scalars \o Chars \o ByteSeqs \o Composites \o Unsupported

RECURSIVE ShapeOf(_)
\* the shape the driver asks the decoder for to get a value like x back
ShapeOf(x) ==
    CASE x.t = "display" -> Sh("str")
      [] x.t = "option" -> [t |-> "option", of |-> x.of]
      [] x.t \in {"seq", "iter"} -> [t |-> "seq", of |-> x.of]
      [] x.t \in {"map", "itermap"} -> [t |-> "map", k |-> x.k, of |-> x.of]
      [] x.t = "tuple" -> [t |-> "tuple", of |-> [i \in 1..Len(x.v) |-> ShapeOf(x.v[i])]]
      [] x.t = "enum" -> [t |-> "enum", variants |-> x.variants]
      [] OTHER -> Sh(x.t)

RECURSIVE ValEq(_, _)
\* equality of two values: the same shape and the same content
ValEq(a, b) ==
    /\ a.t = b.t
    /\ CASE a.t \in {"unit", "none"} -> TRUE
         [] a.t \in {"option", "seq", "iter"} ->
                /\ a.of = b.of
                /\ Len(a.v) = Len(b.v)
                /\ \A i \in 1..Len(a.v) : ValEq(a.v[i], b.v[i])
         [] a.t \in {"map", "itermap"} ->
                /\ a.k = b.k
                /\ a.of = b.of
                /\ Len(a.v) = Len(b.v)
                /\ \A i \in 1..Len(a.v) :
                        ValEq(a.v[i][1], b.v[i][1]) /\ ValEq(a.v[i][2], b.v[i][2])
         [] a.t = "tuple" ->
                /\ Len(a.v) = Len(b.v)
                /\ \A i \in 1..Len(a.v) : ValEq(a.v[i], b.v[i])
         [] a.t = "enum" ->
                /\ a.variants = b.variants
                /\ a.idx = b.idx
                /\ Len(a.v) = Len(b.v)
                /\ \A i \in 1..Len(a.v) : ValEq(a.v[i], b.v[i])
         [] OTHER -> a.v = b.v

\* what a value is to its reader: formatted text is the string it formats to
Canon(x) == IF x.t = "display" THEN Num("str", Concat(x.v)) ELSE x

\* shapes asked of a decoder over bytes that did not come from the encoder
Shapes ==
    << Sh("bool"), Sh("u8"), Sh("i8"), Sh("u16"), Sh("u64"), Sh("char"), Sh("str"),
       Sh("bytes"),
       [t |-> "option", of |-> Sh("u8")],
       [t |-> "option", of |-> Sh("bool")],
       [t |-> "seq", of |-> Sh("u8")],
       [t |-> "map", k |-> Sh("u8"), of |-> Sh("u8")],
       [t |-> "enum", variants |-> Variants],
       Sh("u128"), Sh("i128"), Sh("any"), Sh("identifier"), Sh("ignored_any") >>

\* shapes asked of a decoder that has already been asked for a value
LaterShapes ==
    << Sh("bool"), Sh("u8"), Sh("char"), Sh("str"), Sh("any"), Sh("identifier"),
       Sh("ignored_any") >>

\* an 8-byte count in the given endianness followed by the bytes bs
Counted(n, bs, E) == write_uint(n, 8, E) \o bs

\* inputs that did not come from the encoder
ForeignInputs(E) ==
    [b \in 1..256 |-> <<b - 1>>] \o
    << <<>>,
       <<0, 9>>, <<1, 9>>, <<1, 2>>, <<2, 9>>, <<128, 9>>,
       <<195>>, <<195, 40>>, <<224, 128, 128>>, <<237, 160, 128>>, <<244, 144, 128, 128>>,
       <<248, 128, 128, 128>>, <<226, 130>>,
       Counted(2, <<104, 105, 106>>, E),
       Counted(2, <<255, 254>>, E),
       Counted(3, <<104, 105>>, E),
       Counted(3, <<1, 2, 3>>, E),
       Counted(4, <<1, 2, 3>>, E),
       Counted(5, <<1, 2>>, E),
       Counted(1, <<1, 2>>, E),
       write_uint(3, 4, E) \o <<7>>,
       write_uint(2, 4, E) \o <<7>> >>

Capacities == {1, 9, MaxCapacity}
Prefills == {<<>>, <<170, 187>>}
Caps == {[bounded |-> FALSE, cap |-> 0]} \cup {[bounded |-> TRUE, cap |-> c] : c \in 0..MaxCap}

\* the model's integers stay below 2^31: a 32-bit tag is read only where its
\* most significant byte is below 128
TagFits(bytes, s, E) ==
    s.t = "enum" /\ Len(bytes) >= 4 =>
        (IF E = "little" THEN bytes[4] ELSE bytes[1]) < 128

\* the model's integers stay below 2^31: a 64-bit length is read only where
\* its five most significant bytes are zero
CountFits(bytes, s, E) ==
    s.t \in {"str", "bytes", "seq", "map", "u64"} /\ Len(bytes) >= 8 =>
        \A i \in 1..5 : (IF E = "little" THEN bytes[9 - i] ELSE bytes[i]) = 0

\* shapes of the sequences and maps a visitor walks over bytes that did not
\* come from the encoder
AccessShapes ==
    << [t |-> "seq", of |-> Sh("u8")],
       [t |-> "seq", of |-> Sh("bool")],
       [t |-> "map", k |-> Sh("u8"), of |-> Sh("u8")] >>

\* every code point up to MaxDenseChar as a character
DenseChars == [i \in 1..(MaxDenseChar + 1) |-> Num("char", i - 1)]

\* numbers around the byte boundaries of every fixed-width integer type
NumSamples ==
    << Num("u16", 0), Num("u16", 1), Num("u16", 255), Num("u16", 256),
       Num("u16", 32767), Num("u16", 32768), Num("u16", 43981),
       Num("u32", 0), Num("u32", 255), Num("u32", 65536), Num("u32", 305419896),
       Num("u32", 2147483647),
       Num("u64", 0), Num("u64", 256), Num("u64", 305419896),
       Num("i16", 0 - 32768), Num("i16", 0 - 1), Num("i16", 0 - 256), Num("i16", 32767),
       Num("i16", 4660),
       Num("i32", 0 - 2147483647), Num("i32", 0 - 1), Num("i32", 0 - 65536),
       Num("i32", 305419896),
       Num("i64", 0 - 2147483647), Num("i64", 0 - 16909060), Num("i64", 0 - 256),
       Num("i64", 305419896) >>

\* the values whose encoding is computed value by value
WireValues == Values \o DenseChars \o NumSamples

\* second bytes on each side of what a well-formed sequence allows
SecondBytes == {127, 128, 143, 144, 159, 160, 191, 192}

\* inputs a character is decoded from: every first byte, and every first byte
\* of a multi-byte sequence with second, third and fourth bytes in and out of
\* range
CharInputs ==
    {<<b>> : b \in 0..255}
    \cup {<<b1, b2>> : b1 \in 192..255, b2 \in SecondBytes}
    \cup {<<b1, b2, b3>> : b1 \in 224..239, b2 \in SecondBytes, b3 \in {64, 128, 191}}
    \cup {<<b1, b2, 128, b4>> : b1 \in 240..247, b2 \in SecondBytes, b4 \in {128, 192}}

NoValue == [t |-> "none"]
NoDecoder == [slice |-> <<>>, limit |-> NewLimit([bounded |-> FALSE, cap |-> 0]),
              res |-> "new", arg |-> 0, val |-> NoValue, visits |-> <<>>, ahead |-> 0]

NoAccess == [open |-> FALSE, kind |-> "none", k |-> Sh("unit"), of |-> Sh("unit"),
             len |-> 0, count |-> 0, yielded |-> <<>>, last |-> "none",
             deserializer |-> NoDecoder, from |-> NoDecoder, pre |-> NoDecoder]

----------------------------------------------------------------------------
(* impl fmt::Display for ErrorKind.  write!(fmt, pieces, args) hands the    *)
(* literal pieces to the formatter and calls fmt of every argument in       *)
(* order; "self" is the argument self, the ErrorKind being formatted,       *)
(* "arg" an argument of another type (the u8, the usize, the Utf8Error,     *)
(* the CapacityError, the fmt::Error), "lit" a literal piece.               *)

ErrorKinds ==
    {"Fmt", "InvalidUtf8Encoding", "InvalidBoolEncoding", "InvalidCharEncoding",
     "InvalidTagEncoding", "DeserializeAnyNotSupported", "SizeLimit",
     "SequenceMustHaveLength", "CapacityError", "Serde"}

\* the match arm of fmt for kind, as the pieces write! goes through
FmtPieces(kind) ==
    CASE kind = "InvalidUtf8Encoding" -> <<"self", "lit", "arg">>
      [] kind = "InvalidBoolEncoding" -> <<"self", "lit", "arg">>
      [] kind = "InvalidCharEncoding" -> <<"self">>
      [] kind = "InvalidTagEncoding" -> <<"self", "lit", "arg">>
      [] kind = "SequenceMustHaveLength" -> <<"self">>
      [] kind = "SizeLimit" -> <<"self">>
      [] kind = "DeserializeAnyNotSupported" -> <<"lit">>
      [] kind = "CapacityError" -> <<"arg">>
      [] kind = "Fmt" -> <<"arg">>
      [] kind = "Serde" -> <<"lit">>

\* no formatting under way: stack holds, for every call of fmt that has not
\* returned, the index of the piece it is at; out counts the pieces written
NoDisplay == [kind |-> "none", stack |-> <<>>, out |-> 0, done |-> FALSE]

----------------------------------------------------------------------------
(* The state machine *)

Init ==
    /\ endian \in {"little", "big"}
    /\ cap \in Caps
    /\ writer = [buf |-> <<>>, capacity |-> 0]
    /\ serResult = "new"
    /\ serVal = NoValue
    /\ serFrom = <<>>
    /\ checker = NewLimit(cap)
    /\ chkResult = "none"
    /\ chkVal = NoValue
    /\ input = <<>>
    /\ de = NoDecoder
    /\ deShape = Sh("unit")
    /\ dePre = NoDecoder
    /\ access = NoAccess
    /\ display = NoDisplay

\* Serializer::new over the caller's ArrayVec
NewSerializer(capacity, prefill) ==
    /\ serResult = "new"
    /\ de.res = "new"
    /\ Len(prefill) <= capacity
    /\ writer' = [buf |-> prefill, capacity |-> capacity]
    /\ serResult' = "none"
    /\ UNCHANGED <<endian, cap, serVal, serFrom, checker, chkResult, chkVal, input,
                   de, deShape, dePre, access, display>>

\* value.serialize(&mut serializer)
Serialize(x) ==
    /\ serResult = "none"
    /\ de.res = "new"
    /\ chkResult # "none" => ValEq(x, chkVal)
    /\ LET e == Ser([buf |-> writer.buf, capacity |-> writer.capacity, res |-> "Ok"],
                    x, endian)
       IN  /\ writer' = [writer EXCEPT !.buf = e.buf]
           /\ serResult' = e.res
    /\ serVal' = x
    /\ serFrom' = writer.buf
    /\ UNCHANGED <<endian, cap, checker, chkResult, chkVal, input, de, deShape, dePre, access,
                   display>>

\* value.serialize(&mut size_checker)
SizeCheck(x) ==
    /\ chkResult = "none"
    /\ de.res = "new"
    /\ serResult \notin {"new", "none"} => ValEq(x, serVal)
    /\ LET c == Size([limit |-> checker, res |-> "Ok"], x)
       IN  /\ checker' = c.limit
           /\ chkResult' = c.res
    /\ chkVal' = x
    /\ UNCHANGED <<endian, cap, writer, serResult, serVal, serFrom, input, de, deShape,
                   dePre, access, display>>

\* Deserializer::new over the first k bytes the encoder appended
NewDeserializer(k) ==
    /\ de.res = "new"
    /\ serResult = "Ok"
    /\ LET bytes == Take(Drop(writer.buf, Len(serFrom)), k)
       IN  /\ input' = bytes
           /\ de' = [NoDecoder EXCEPT !.slice = bytes, !.limit = NewLimit(cap),
                                      !.res = "none"]
    /\ UNCHANGED <<endian, cap, writer, serResult, serVal, serFrom, checker, chkResult,
                   chkVal, deShape, dePre, access, display>>

\* Deserializer::new over bytes from elsewhere
NewForeignDeserializer(bytes) ==
    /\ de.res = "new"
    /\ serResult = "new"
    /\ chkResult = "none"
    /\ input' = bytes
    /\ de' = [NoDecoder EXCEPT !.slice = bytes, !.limit = NewLimit(cap), !.res = "none"]
    /\ UNCHANGED <<endian, cap, writer, serResult, serVal, serFrom, checker, chkResult,
                   chkVal, deShape, dePre, access, display>>

\* T::deserialize(&mut deserializer) for the type of shape s
Deserialize(s) ==
    /\ de.res = "none"
    /\ ~access.open
    /\ LET d == De([de EXCEPT !.res = "Ok"], s, endian)
       IN  de' = IF d.res = "Ok" THEN d ELSE [d EXCEPT !.val = NoValue]
    /\ deShape' = s
    /\ dePre' = de
    /\ UNCHANGED <<endian, cap, writer, serResult, serVal, serFrom, checker, chkResult,
                   chkVal, input, access, display>>

\* a further T::deserialize(&mut deserializer) on the same decoder, whatever
\* the operation before it returned
DeserializeNext(s) ==
    /\ de.res \notin {"new", "none"}
    /\ dePre.res = "none"
    /\ LET d == De([de EXCEPT !.res = "Ok", !.arg = 0, !.val = NoValue,
                              !.visits = <<>>, !.ahead = 0], s, endian)
       IN  de' = IF d.res = "Ok" THEN d ELSE [d EXCEPT !.val = NoValue]
    /\ deShape' = s
    /\ dePre' = de
    /\ UNCHANGED <<endian, cap, writer, serResult, serVal, serFrom, checker, chkResult,
                   chkVal, input, access, display>>

\* deserialize_seq and deserialize_map up to the call of the visitor: the
\* count is read and the visitor is handed Access { deserializer: self, len }
VisitAccess(s) ==
    /\ de.res = "none"
    /\ ~access.open
    /\ LET d1 == deserialize_num([de EXCEPT !.res = "Ok"], "u64", endian)
       IN  /\ d1.res = "Ok"
           /\ access' = [open |-> TRUE, kind |-> s.t,
                         k |-> IF s.t = "map" THEN s.k ELSE Sh("unit"), of |-> s.of,
                         len |-> d1.val.v, count |-> d1.val.v, yielded |-> <<>>,
                         last |-> "none", deserializer |-> d1, from |-> d1, pre |-> d1]
    /\ UNCHANGED <<endian, cap, writer, serResult, serVal, serFrom, checker, chkResult,
                   chkVal, input, de, deShape, dePre, display>>

\* the visitor asks for the next element; it returns at the first error
NextElement ==
    /\ access.open
    /\ access.kind = "seq"
    /\ access.last # "error"
    /\ access' = next_element_seed(access, endian)
    /\ UNCHANGED <<endian, cap, writer, serResult, serVal, serFrom, checker, chkResult,
                   chkVal, input, de, deShape, dePre, display>>

\* the visitor asks for the next key
NextKey ==
    /\ access.open
    /\ access.kind = "map"
    /\ access.last \in {"none", "some", "end"}
    /\ access' = next_key_seed(access, endian)
    /\ UNCHANGED <<endian, cap, writer, serResult, serVal, serFrom, checker, chkResult,
                   chkVal, input, de, deShape, dePre, display>>

\* the visitor asks for the value of the key it was given
NextValue ==
    /\ access.open
    /\ access.kind = "map"
    /\ access.last = "key"
    /\ access' = next_value_seed(access, endian)
    /\ UNCHANGED <<endian, cap, writer, serResult, serVal, serFrom, checker, chkResult,
                   chkVal, input, de, deShape, dePre, display>>

\* format!("{}", kind): the first call of <ErrorKind as Display>::fmt
DisplayFmt(kind) ==
    /\ display.kind = "none"
    /\ display' = [kind |-> kind, stack |-> <<1>>, out |-> 0, done |-> FALSE]
    /\ UNCHANGED <<endian, cap, writer, serResult, serVal, serFrom, checker, chkResult,
                   chkVal, input, de, deShape, dePre, access>>

\* one step of the innermost call of fmt: it returns behind its last piece,
\* calls fmt of self where the piece is the argument self, and writes the
\* piece otherwise
FmtStep ==
    /\ display.stack # <<>>
    /\ LET depth == Len(display.stack)
           at == display.stack[depth]
           pieces == FmtPieces(display.kind)
       IN  IF at > Len(pieces)
           THEN display' =
                    [display EXCEPT
                        !.stack = IF depth = 1 THEN <<>>
                                  ELSE [Take(@, depth - 1) EXCEPT ![depth - 1] = @ + 1],
                        !.done = (depth = 1)]
           ELSE IF pieces[at] = "self"
           THEN /\ depth < MaxFmtDepth
                /\ display' = [display EXCEPT !.stack = Append(@, 1)]
           ELSE display' = [display EXCEPT !.stack[depth] = @ + 1, !.out = @ + 1]
    /\ UNCHANGED <<endian, cap, writer, serResult, serVal, serFrom, checker, chkResult,
                   chkVal, input, de, deShape, dePre, access>>

Next ==
    \/ \E capacity \in Capacities, prefill \in Prefills : NewSerializer(capacity, prefill)
    \/ \E i \in 1..Len(Values) : Serialize(Values[i])
    \/ \E i \in 1..Len(Values) : SizeCheck(Values[i])
    \/ \E k \in 0..MaxCapacity : k <= Len(writer.buf) - Len(serFrom) /\ NewDeserializer(k)
    \/ \E i \in 1..Len(ForeignInputs(endian)) :
            NewForeignDeserializer(ForeignInputs(endian)[i])
    \/ serResult = "new" /\ \E i \in 1..Len(Shapes) :
            TagFits(de.slice, Shapes[i], endian) /\ Deserialize(Shapes[i])
    \/ serResult = "Ok" /\ Deserialize(ShapeOf(serVal))
    \/ serResult = "new" /\ Len(input) > 1 /\ \E i \in 1..Len(LaterShapes) :
            CountFits(de.slice, LaterShapes[i], endian) /\ DeserializeNext(LaterShapes[i])
    \/ serResult = "new" /\ \E i \in 1..Len(AccessShapes) :
            CountFits(de.slice, AccessShapes[i], endian) /\ VisitAccess(AccessShapes[i])
    \/ serResult = "Ok" /\ serVal.t \in {"seq", "map"} /\ VisitAccess(ShapeOf(serVal))
    \/ NextElement
    \/ NextKey
    \/ NextValue

Spec == Init /\ [][Next]_vars

\* the specification the value-by-value functions are checked under: one
\* value is encoded and its encoding, whole or cut, is decoded; one input is
\* decoded as a character; one ErrorKind is formatted
PureInit == Init /\ ~cap.bounded

PureNext ==
    \/ display.kind = "none" /\ \E prefill \in Prefills :
            NewSerializer(MaxCapacity, prefill)
    \/ display.kind = "none" /\ \E i \in 1..Len(WireValues) : Serialize(WireValues[i])
    \/ display.kind = "none" /\ \E k \in 0..MaxCapacity :
            k <= Len(writer.buf) - Len(serFrom) /\ NewDeserializer(k)
    \/ display.kind = "none" /\ serResult = "Ok" /\ Deserialize(ShapeOf(serVal))
    \/ display.kind = "none" /\ \E bytes \in CharInputs : NewForeignDeserializer(bytes)
    \/ display.kind = "none" /\ serResult = "new" /\ Deserialize(Sh("char"))
    \/ serResult = "new" /\ de.res = "new" /\ \E kind \in ErrorKinds : DisplayFmt(kind)
    \/ FmtStep

PureSpec == PureInit /\ [][PureNext]_vars

----------------------------------------------------------------------------
(* State functions the properties are stated with *)

\* the bytes the last encoder operation appended
Encoded == Drop(writer.buf, Len(serFrom))

\* the number of bytes the size-checker counts for x under an unbounded limit
serialized_size(x) ==
    Size([limit |-> NewLimit([bounded |-> FALSE, cap |-> 0]), res |-> "Ok"], x).limit.total

SerDone == serResult \notin {"new", "none"}
ChkDone == chkResult # "none"
DeDone == de.res \notin {"new", "none"}

\* the decoder was asked for the shape of the encoded value, over all of its
\* encoding / over a proper prefix of it
DecodedFull == DeDone /\ serResult = "Ok" /\ Len(input) = Len(Encoded)
DecodedPrefix == DeDone /\ serResult = "Ok" /\ Len(input) < Len(Encoded)

\* bytes the last decoder operation consumed, and bytes it added to the limit
Consumed == Len(dePre.slice) - Len(de.slice)
Accounted == de.limit.total - dePre.limit.total

\* the limit lets the last decoder operation add n bytes at its start
LimitAllows(n) == cap.bounded => dePre.limit.total + n <= cap.cap

----------------------------------------------------------------------------
(* C1 .. C10 *)

\* C1 (round trip): when the encoder succeeded on a value and the decoder is
\* asked for the value's shape over all the bytes produced, with the same
\* endianness and a limit that does not bar the bytes, decoding succeeds and
\* yields a value equal to the one encoded.
C1_RoundTrip ==
    DecodedFull /\ (cap.bounded => cap.cap >= Len(Encoded)) =>
        /\ de.res = "Ok"
        /\ ValEq(de.val, Canon(serVal))

C1_Witness ==
    /\ DecodedFull
    /\ de.res = "Ok"
    /\ endian = "big"
    /\ serVal.t = "map"
    /\ Len(serVal.v) = 2
    /\ Len(serFrom) > 0

\* C2 (size agreement): the number of bytes the encoder appends for a value is
\* the number the size-checker accumulates for it under an unbounded limit, and
\* is the number of bytes the decoder's cursor advances over when it decodes
\* that encoding as the value's shape.
C2_SizeAgreement ==
    /\ serResult = "Ok" /\ chkResult = "Ok" /\ ~cap.bounded =>
            checker.total = Len(Encoded)
    /\ DecodedFull /\ de.res = "Ok" => Consumed = Len(Encoded)

C2_Witness ==
    /\ serResult = "Ok"
    /\ chkResult = "Ok"
    /\ ~cap.bounded
    /\ DecodedFull
    /\ de.res = "Ok"
    /\ serVal.t = "seq"
    /\ serVal.of.t = "char"
    /\ checker.total = 11

\* C3 as claimed (truncation safety): decoding a proper prefix of an encoding
\* as the value's shape fails with SizeLimit and nothing else.
C3_TruncationIsSizeLimit ==
    DecodedPrefix => de.res = "SizeLimit"

\* the decoder stopped right behind the first byte of a multi-byte character
\* whose other bytes are cut off
CutInsideChar ==
    /\ Len(input) > Len(de.slice)
    /\ utf8_char_width(input[Len(input) - Len(de.slice)]) > 1
    /\ Len(de.slice) < utf8_char_width(input[Len(input) - Len(de.slice)]) - 1

\* C3 as amended: decoding a proper prefix of an encoding as the value's shape
\* never returns a value; it fails with SizeLimit, except that it fails with
\* InvalidCharEncoding when the cut falls inside a multi-byte character, behind
\* its first byte.
C3_TruncationFails ==
    DecodedPrefix =>
        /\ de.val = NoValue
        /\ \/ de.res = "SizeLimit"
           \/ de.res = "InvalidCharEncoding" /\ CutInsideChar

C3_Witness ==
    /\ DecodedPrefix
    /\ de.res = "InvalidCharEncoding"
    /\ serVal.t = "char"
    /\ Len(Encoded) = 4
    /\ Len(input) = 2

\* C4 (cap enforcement on decode): decoding the whole encoding of a value under
\* a size limit below the value's size-checked length fails with SizeLimit.
C4_DecodeCapEnforced ==
    DecodedFull /\ cap.bounded /\ cap.cap < serialized_size(serVal) =>
        de.res = "SizeLimit"

\* C5 (cap enforcement on encode): encoding a value under a size limit below
\* the value's size-checked length fails with SizeLimit.
C5_EncodeCapEnforced ==
    SerDone /\ cap.bounded /\ cap.cap < serialized_size(serVal) =>
        serResult = "SizeLimit"

\* the length or count the last decoder operation read from the wire
Declared == read_uint(dePre.slice, 8, endian)

\* the last decoder operation read a length or count that exceeds what the cap
\* leaves after the 8 bytes of the length itself
DeclaredOverCap ==
    /\ DeDone
    /\ Len(dePre.slice) >= 8
    /\ cap.bounded
    /\ LimitAllows(8)
    /\ Declared > (cap.cap - dePre.limit.total) - 8

C7_CheckerCapEnforced ==
    ChkDone /\ cap.bounded /\ serialized_size(chkVal) > cap.cap =>
        chkResult = "SizeLimit"

\* a value the encoder has an encoding for
Supported(x) == x.t \notin {"u128", "i128", "iter", "itermap"}

\* all the bytes of the last encoder operation fit in the capacity that was left
Fits == Len(serFrom) + serialized_size(serVal) <= writer.capacity

\* C8 as claimed (capacity failure): an encoder operation succeeds when all of
\* its bytes fit, and fails with CapacityError when it runs out of space.
C8_FullIsCapacityError ==
    SerDone => serResult = (IF Fits THEN "Ok" ELSE "CapacityError")

\* C8 as amended: an encoder operation on a value the encoder has an encoding
\* for succeeds when all of its bytes fit; one that runs out of space fails
\* with CapacityError, except collect_str, which fails with CapacityError when
\* its 8 length bytes do not fit and with Fmt when the space runs out while it
\* streams the formatted text.
C8_CapacityFailure ==
    SerDone /\ Supported(serVal) =>
        serResult = (IF Fits THEN "Ok"
                     ELSE IF serVal.t = "display" /\ Len(serFrom) + 8 <= writer.capacity
                          THEN "Fmt"
                     ELSE "CapacityError")

C8_Witness ==
    /\ SerDone
    /\ serVal.t = "display"
    /\ serResult = "Fmt"
    /\ Len(writer.buf) = writer.capacity
    /\ Len(writer.buf) > Len(serFrom) + 8

\* the last decoder operation could read its first byte
FirstByteRead == DeDone /\ Len(dePre.slice) >= 1 /\ LimitAllows(1)

\* C9 (boolean decoding): reading a boolean consumes exactly one byte b; 0
\* hands false to the visitor, 1 hands true, and any other b fails with
\* InvalidBoolEncoding(b) without a call of the visitor.
C9_BoolDecoding ==
    deShape.t = "bool" /\ FirstByteRead =>
        LET b == dePre.slice[1]
        IN  /\ Consumed = 1
            /\ b \in {0, 1} =>
                    /\ de.res = "Ok"
                    /\ de.visits = <<[m |-> "visit_bool", v |-> (b = 1)]>>
            /\ b \notin {0, 1} =>
                    /\ de.res = "InvalidBoolEncoding"
                    /\ de.arg = b
                    /\ de.visits = <<>>

C9_Witness ==
    /\ deShape.t = "bool"
    /\ FirstByteRead
    /\ de.res = "InvalidBoolEncoding"
    /\ de.arg = 255

\* C10 (option decoding): reading an option consumes one tag byte t; 0 calls
\* visit_none and consumes nothing more, 1 calls visit_some and the payload is
\* decoded from the bytes right behind the tag, and any other t fails with
\* InvalidTagEncoding(t) without a call of the visitor.
C10_OptionDecoding ==
    deShape.t = "option" /\ FirstByteRead =>
        LET tag == dePre.slice[1]
        IN  /\ tag = 0 =>
                    /\ de.res = "Ok"
                    /\ Consumed = 1
                    /\ de.visits = <<[m |-> "visit_none"]>>
                    /\ de.val.v = <<>>
            /\ tag = 1 =>
                    /\ Len(de.visits) >= 1
                    /\ de.visits[1] = [m |-> "visit_some"]
                    /\ de.res = "Ok" =>
                            /\ Consumed = 1 + serialized_size(de.val.v[1])
                            /\ Ser([buf |-> <<>>, capacity |-> Len(dePre.slice),
                                    res |-> "Ok"], de.val.v[1], endian).buf
                               = SubSeq(dePre.slice, 2, Consumed)
                    /\ deShape.of.t = "u8" /\ Len(dePre.slice) >= 2 /\ LimitAllows(2) =>
                            /\ de.res = "Ok"
                            /\ de.val.v[1].v = dePre.slice[2]
            /\ tag \notin {0, 1} =>
                    /\ de.res = "InvalidTagEncoding"
                    /\ de.arg = tag
                    /\ Consumed = 1
                    /\ de.visits = <<>>

C10_Witness ==
    /\ deShape.t = "option"
    /\ FirstByteRead
    /\ dePre.slice[1] = 1
    /\ de.res = "Ok"
    /\ serResult = "new"
    /\ de.val.v[1].v = 9

----------------------------------------------------------------------------
(* C11 .. C20 *)

\* the 32-bit tag the last decoder operation read from the wire
DeclaredTag == read_uint(dePre.slice, 4, endian)

\* C11 (tag out of range): decoding a tagged variant whose 32-bit tag is not
\* the index of one of the expected variants fails with InvalidTagEncoding.
C11_TagOutOfRange ==
    /\ deShape.t = "enum"
    /\ DeDone
    /\ Len(dePre.slice) >= 4
    /\ LimitAllows(4)
    /\ DeclaredTag >= Len(deShape.variants)
    => de.res = "InvalidTagEncoding"

\* an operation on this decoder before the last one returned an error
FailedBefore == dePre.res \notin {"new", "none", "Ok"}

\* C12 (poisoned is terminal): once an operation on a decoder has returned an
\* error, no later operation on that decoder reads bytes or moves the cursor.
C12_PoisonedIsTerminal ==
    DeDone /\ FailedBefore => de.slice = dePre.slice /\ de.res # "Ok"

\* s is the last Len(s) elements of t
IsSuffix(s, t) == Len(s) <= Len(t) /\ s = Drop(t, Len(t) - Len(s))

RECURSIVE HasStr(_)
\* a string is among what a value of shape s is made of
HasStr(s) ==
    CASE s.t = "str" -> TRUE
      [] s.t \in {"option", "seq"} -> HasStr(s.of)
      [] s.t = "map" -> HasStr(s.k) \/ HasStr(s.of)
      [] s.t = "tuple" -> \E i \in 1..Len(s.of) : HasStr(s.of[i])
      [] s.t = "enum" ->
            \E i \in 1..Len(s.variants) :
                \E j \in 1..Len(s.variants[i]) : HasStr(s.variants[i][j])
      [] OTHER -> FALSE

\* after every decoder operation the unread input is a tail of what was unread
\* before it, which is a tail of the slice the decoder was constructed over
CursorMovesForward ==
    DeDone => IsSuffix(de.slice, dePre.slice) /\ IsSuffix(dePre.slice, input)

\* C13 as claimed (cursor discipline): the unread input stays a tail of the
\* original slice and never grows, and the only byte examined ahead of the
\* cursor is the first byte of a character.
C13_OnlyCharPeek ==
    /\ CursorMovesForward
    /\ DeDone /\ de.ahead > 0 => deShape.t = "char" /\ de.ahead = 1

\* C13 as amended: the unread input stays a tail of the original slice and
\* never grows; the bytes examined ahead of the cursor are the payload of a
\* string, validated while the cursor is at its start (a payload that is not
\* UTF-8 leaves the cursor there, behind the 8 length bytes); the first byte
\* of a character is consumed before its width is looked up.
C13_CursorDiscipline ==
    /\ CursorMovesForward
    /\ DeDone /\ ~HasStr(deShape) => de.ahead = 0
    /\ DeDone /\ deShape.t = "str" /\ de.ahead > 0 =>
            /\ de.ahead = Declared
            /\ de.res \in {"Ok", "InvalidUtf8Encoding"}
            /\ Consumed = (IF de.res = "Ok" THEN 8 + Declared ELSE 8)
    /\ DeDone /\ deShape.t = "char" /\ dePre.slice # <<>> => Consumed >= 1

C13_Witness ==
    /\ DeDone
    /\ deShape.t = "str"
    /\ de.res = "InvalidUtf8Encoding"
    /\ de.ahead = 2
    /\ Len(de.slice) = 2
    /\ Len(input) = 10

\* the bytes the encoder appends for x when nothing stops it
FullEncoding(x) ==
    Ser([buf |-> <<>>, capacity |-> serialized_size(x), res |-> "Ok"], x, endian).buf

\* C14 (append-only frame): after every encoder operation, failed or not, the
\* buffer as it was before the call is an unchanged prefix of the buffer; what
\* collect_str overwrites is the 8 length bytes it reserved in that call, the
\* text it streamed behind them stays as written.
C14_AppendOnlyFrame ==
    SerDone =>
        /\ Len(writer.buf) >= Len(serFrom)
        /\ Take(writer.buf, Len(serFrom)) = serFrom
        /\ serVal.t = "display" /\ Len(Encoded) >= 8 =>
                Drop(Encoded, 8) = Take(Concat(serVal.v), Len(Encoded) - 8)
        /\ serVal.t # "display" /\ Supported(serVal) =>
                Encoded = Take(FullEncoding(serVal), Len(Encoded))

C14_Witness ==
    /\ SerDone
    /\ serVal.t = "display"
    /\ serResult = "Ok"
    /\ serFrom = <<170, 187>>
    /\ Len(Encoded) = 11

\* shapes read by one primitive decode operation
Primitive(s) ==
    s.t \in {"bool", "u8", "u16", "u32", "u64", "i8", "i16", "i32", "i64", "char",
             "str", "bytes"}

\* C15 (no partial result after failure): a primitive decode operation that
\* fails, and an option whose tag is refused, has made no call on the visitor;
\* an encoder operation that fails reports an error kind, and the bytes it
\* appended before it ran out of space stay in the buffer, which is then full.
C15_NoPartialResult ==
    /\ DeDone /\ Primitive(deShape) /\ de.res # "Ok" =>
            de.visits = <<>> /\ de.val = NoValue
    /\ DeDone /\ deShape.t = "option" /\ de.res = "InvalidTagEncoding" =>
            de.visits = <<>> /\ de.val = NoValue
    /\ SerDone /\ Supported(serVal) /\ serResult # "Ok" =>
            /\ serResult \in {"CapacityError", "Fmt"}
            /\ Len(writer.buf) = writer.capacity
            /\ Take(writer.buf, Len(serFrom)) = serFrom
            /\ serVal.t # "display" =>
                    Encoded = Take(FullEncoding(serVal), Len(Encoded))

C15_Witness ==
    /\ DeDone
    /\ deShape.t = "bytes"
    /\ de.res = "SizeLimit"
    /\ Consumed = 8
    /\ Declared = 3
    /\ Len(de.slice) = 2
    /\ ~cap.bounded

\* C16 (unknown length): serialize_seq and serialize_map without a length fail
\* with SequenceMustHaveLength in the encoder and in the size-checker; the
\* encoder appends no byte and the size-checker adds nothing.
C16_MustHaveLength ==
    /\ SerDone /\ serVal.t \in {"iter", "itermap"} =>
            serResult = "SequenceMustHaveLength" /\ writer.buf = serFrom
    /\ ChkDone /\ chkVal.t \in {"iter", "itermap"} =>
            chkResult = "SequenceMustHaveLength" /\ checker.total = 0

C16_Witness ==
    /\ SerDone
    /\ ChkDone
    /\ serVal.t = "iter"
    /\ Len(serVal.v) = 2
    /\ serFrom = <<170, 187>>
    /\ writer.capacity = MaxCapacity
    /\ ~cap.bounded

\* C17 (128-bit integers without the i128 feature): encoding, size-checking
\* and decoding a 128-bit integer each return an error: no panic, no byte
\* written, counted or consumed.
C17_Int128ExplicitError ==
    /\ SerDone /\ serVal.t \in {"u128", "i128"} =>
            serResult \notin {"Ok", "panic"} /\ writer.buf = serFrom
    /\ ChkDone /\ chkVal.t \in {"u128", "i128"} =>
            chkResult # "Ok" /\ checker.total = 0
    /\ DeDone /\ deShape.t \in {"u128", "i128"} =>
            de.res # "Ok" /\ de.slice = dePre.slice /\ de.visits = <<>>

\* C18 (self-describing decoding is refused): deserialize_any fails with
\* DeserializeAnyNotSupported, deserialize_identifier and
\* deserialize_ignored_any fail with an error, in a fresh decoder and after
\* an earlier operation, failed or not; none of them consumes a byte, adds to
\* the size limit or calls the visitor.
C18_AnyRefused ==
    DeDone /\ deShape.t \in {"any", "identifier", "ignored_any"} =>
        /\ de.res # "Ok"
        /\ deShape.t = "any" => de.res = "DeserializeAnyNotSupported"
        /\ de.slice = dePre.slice
        /\ de.limit = dePre.limit
        /\ de.visits = <<>>
        /\ de.val = NoValue

C18_Witness ==
    /\ DeDone
    /\ deShape.t = "ignored_any"
    /\ dePre.res = "Ok"
    /\ Len(input) = 11
    /\ Len(de.slice) = 10

\* the calls that yielded a key whose value has not been asked for yet
KeyPending == IF access.last = "key" THEN 1 ELSE 0

\* the elements, or the pairs, the access has yielded in full
Yields ==
    IF access.kind = "map" THEN (Len(access.yielded) - KeyPending) \div 2
    ELSE Len(access.yielded)

\* C19 (sequence and map access): an access made with the count L yields L
\* elements (L keys, each followed by its value read right behind it) and
\* then signals end; after k yields the size hint is L - k; the end signal
\* consumes no byte and adds nothing to the size limit.
C19_AccessYieldsCount ==
    access.open /\ access.last # "error" =>
        /\ size_hint(access) = access.count - Yields - KeyPending
        /\ Yields <= access.count
        /\ access.last = "end" =>
                /\ Yields = access.count
                /\ access.deserializer.slice = access.pre.slice
                /\ access.deserializer.limit = access.pre.limit
        /\ access.last \in {"some", "key"} /\ access.of.t = "u8" =>
                /\ Len(access.from.slice) - Len(access.deserializer.slice)
                        = Len(access.yielded)
                /\ \A i \in 1..Len(access.yielded) :
                        access.yielded[i].v = access.from.slice[i]

C19_Witness ==
    /\ access.open
    /\ access.kind = "map"
    /\ access.last = "end"
    /\ access.count = 2
    /\ Len(access.yielded) = 4
    /\ serResult = "Ok"
    /\ endian = "big"

\* C20 (collect_str equals serialize_str): when the formatted text fits,
\* collect_str leaves the buffer as serialize_str of that text would: the
\* 8-byte length of the text in the configured endianness where the bytes were
\* reserved, then the text; the size-checker's collect_str leaves the limit as
\* its serialize_str of that text does, 8 + |s| bytes added when the cap
\* allows them.
C20_CollectStrIsSerializeStr ==
    /\ SerDone /\ serVal.t = "display" /\ Fits =>
            /\ serResult = "Ok"
            /\ writer.buf = serialize_str([buf |-> serFrom, capacity |-> writer.capacity,
                                           res |-> "Ok"], Concat(serVal.v), endian).buf
            /\ Take(Encoded, 8) = write_uint(Len(Concat(serVal.v)), 8, endian)
            /\ Drop(Encoded, 8) = Concat(serVal.v)
    /\ ChkDone /\ chkVal.t = "display" =>
            /\ checker = size_serialize_str([limit |-> NewLimit(cap), res |-> "Ok"],
                                            Concat(chkVal.v)).limit
            /\ (cap.bounded => 8 + Len(Concat(chkVal.v)) <= cap.cap) =>
                    checker.total = 8 + Len(Concat(chkVal.v))

C20_Witness ==
    /\ SerDone
    /\ ChkDone
    /\ serVal.t = "display"
    /\ serResult = "Ok"
    /\ endian = "big"
    /\ serFrom = <<170, 187>>
    /\ Len(Encoded) = 11
    /\ checker.total = 11

----------------------------------------------------------------------------
(* C21 .. C25 *)

\* the number of bytes UTF-8 takes for the code point c
Utf8Len(c) == IF c < 128 THEN 1 ELSE IF c < 2048 THEN 2 ELSE IF c < 65536 THEN 3 ELSE 4

\* C21 (character width recovery): the encoder emits the 1 to 4 bytes of the
\* character's UTF-8 form and nothing else; the width table applied to the
\* first of them gives their number; decoding consumes exactly those bytes
\* and hands the character to the visitor.
C21_CharWidthRecovery ==
    /\ SerDone /\ serVal.t = "char" =>
            /\ serResult = "Ok"
            /\ Len(Encoded) = Utf8Len(serVal.v)
            /\ utf8_char_width(Encoded[1]) = Len(Encoded)
            /\ \A i \in 2..Len(Encoded) : utf8_char_width(Encoded[i]) = 0
    /\ DecodedFull /\ serVal.t = "char" =>
            /\ de.res = "Ok"
            /\ Consumed = Len(Encoded)
            /\ de.slice = <<>>
            /\ de.visits = <<[m |-> "visit_char", v |-> serVal.v]>>

C21_Witness ==
    /\ DecodedFull
    /\ serVal.t = "char"
    /\ serVal.v = 2048
    /\ Encoded = <<224, 160, 128>>
    /\ de.res = "Ok"
    /\ serFrom = <<170, 187>>

\* a Unicode scalar value: a code point that is not a surrogate
IsScalar(c) == c >= 0 /\ c <= 1114111 /\ ~(c >= 55296 /\ c <= 57343)

\* the last decoder operation refused a character without a visitor call
CharRejected == de.res = "InvalidCharEncoding" /\ de.visits = <<>>

\* C22 (malformed character rejection): decoding a character fails with
\* InvalidCharEncoding, without a call of the visitor, when the first byte's
\* width is 0 (0x80..0xC1, 0xF5..0xFF), when fewer than width - 1 bytes follow
\* it, and when the width bytes are not valid UTF-8; what it accepts is the
\* encoding of the scalar value it hands to the visitor.
C22_MalformedCharRejected ==
    DeDone /\ deShape.t = "char" /\ dePre.slice # <<>> =>
        LET b == dePre.slice[1]
            width == utf8_char_width(b)
            span == Take(dePre.slice, width)
        IN  /\ (width = 0) <=> (b \in 128..193 \/ b \in 245..255)
            /\ width = 0 => CharRejected
            /\ width > 1 /\ Len(dePre.slice) < width => CharRejected
            /\ width > 1 /\ Len(dePre.slice) >= width /\ ~Utf8Valid(span) => CharRejected
            /\ de.res # "Ok" => CharRejected
            /\ de.res = "Ok" =>
                    /\ Consumed = width
                    /\ IsScalar(de.val.v)
                    /\ encode_utf8(de.val.v) = span
                    /\ de.visits = <<[m |-> "visit_char", v |-> de.val.v]>>

C22_Witness ==
    /\ DeDone
    /\ deShape.t = "char"
    /\ input = <<237, 160, 128>>
    /\ CharRejected
    /\ Consumed = 3

\* the n bytes of v on the wire: byte i is (v >> 8i) mod 256 in little-endian
\* order, the same bytes reversed in big-endian order
Wire(v, n) ==
    IF endian = "little" THEN [i \in 1..n |-> Shr8(v, i - 1) % 256]
    ELSE [i \in 1..n |-> Shr8(v, n - i) % 256]

\* C23 (endianness applies uniformly): the fixed-width integers of 16, 32 and
\* 64 bits, signed ones in two's complement, the 8-byte lengths of strings,
\* byte blobs, formatted text, sequences and maps and the 4-byte variant tag
\* are written in the configured byte order, and read back with it.
C23_EndiannessUniform ==
    /\ SerDone /\ serResult = "Ok" =>
            /\ serVal.t \in {"u16", "i16"} => Encoded = Wire(serVal.v, 2)
            /\ serVal.t \in {"u32", "i32"} => Encoded = Wire(serVal.v, 4)
            /\ serVal.t \in {"u64", "i64"} => Encoded = Wire(serVal.v, 8)
            /\ serVal.t \in {"str", "bytes", "seq", "map"} =>
                    Take(Encoded, 8) = Wire(Len(serVal.v), 8)
            /\ serVal.t = "display" =>
                    Take(Encoded, 8) = Wire(Len(Concat(serVal.v)), 8)
            /\ serVal.t = "enum" => Take(Encoded, 4) = Wire(serVal.idx, 4)
    /\ DecodedFull /\ serVal.t \in {"u16", "i16", "u32", "i32", "u64", "i64"} =>
            /\ de.res = "Ok"
            /\ de.val.v = serVal.v
            /\ Consumed = Len(Encoded)
    /\ DecodedFull /\ serVal.t \in {"str", "bytes", "seq", "map", "enum", "display"} =>
            /\ de.res = "Ok"
            /\ ValEq(de.val, Canon(serVal))

C23_Witness ==
    /\ DecodedFull
    /\ endian = "big"
    /\ serVal.t = "i32"
    /\ serVal.v = 0 - 65536
    /\ Encoded = <<255, 255, 0, 0>>
    /\ de.res = "Ok"

\* C24 (accounting matches consumption): after decoder operations that all
\* succeeded, the bytes added to the size limit are the bytes the cursor has
\* advanced over.
C24_AccountingMatchesConsumption ==
    DeDone /\ de.res = "Ok" /\ dePre.res \in {"none", "Ok"} =>
        de.limit.total = Len(input) - Len(de.slice)

\* C25 (formatting an error terminates): fmt of an ErrorKind does not enter
\* itself again on the value it is formatting.
C25_DisplayNoReentry ==
    Len(display.stack) <= 1

====
